---- MODULE Spec2Model ----
(***************************************************************************)
(* A model of the CGI careers scraper (src/scraper.py, src/app.py).        *)
(*                                                                         *)
(* Python strings are modelled as sequences of one-character strings, so   *)
(* that lower-casing, substring search, splitting and the date regexes are *)
(* computed character by character as the code computes them.              *)
(*                                                                         *)
(* Three specifications share the module:                                  *)
(*   Spec        scrape_jobs, with the static loop and the Playwright      *)
(*               driver, against a nondeterministic site and browser;      *)
(*   FilterSpec  filter_jobs applied to bounded inputs;                    *)
(*   DetailSpec  parse_job_detail_html applied to bounded detail pages.    *)
(***************************************************************************)
EXTENDS Integers, Sequences, FiniteSets, TLC

VARIABLES
    \* ---- filter_jobs called on its own (FilterSpec)
    fpc,            \* "idle" | "call" | "returned" | "raised"
    f_jobs,         \* argument jobs
    f_keywords,     \* argument keywords, [none, list]
    f_mode,         \* argument match_mode
    f_regex,        \* argument use_regex
    f_result,       \* the returned list
    f_base          \* [set, truthy, kept]: of the first call, whether its keywords
                    \* were truthy and the size of its result

fvars == <<fpc, f_jobs, f_keywords, f_mode, f_regex, f_result, f_base>>

VARIABLES
    \* ---- parse_job_detail_html called on its own (DetailSpec)
    dpc,            \* "idle" | "call" | "returned"
    d_doc,          \* argument: the detail page
    d_out           \* the returned dict

dvars == <<dpc, d_doc, d_out>>

VARIABLES
    \* ---- scrape_jobs (Spec)
    pc,             \* position in scrape_jobs and fetch_with_playwright
    arg,            \* the arguments of scrape_jobs
    installed,      \* sync_playwright is not None
    pnum,           \* the loop index (p of scrape_jobs, pnum of the driver)
    all_jobs,       \* all_jobs of scrape_jobs
    log,            \* history: the fetches of the static loop, [p, url, got]
    r_jobs,         \* jobs of fetch_with_playwright
    r_html,         \* html of fetch_with_playwright: the page read, by name
    page_jobs,      \* page_jobs of fetch_with_playwright
    di,             \* index in page_jobs of the next row of the details loop
    browser,        \* "none" | "open" | "closed"
    detail_open,    \* a detail page that was opened has not been closed
    shown,          \* history: the listing page the browser displays
    search,         \* history: "none" | "submitted" | "not_submitted"
    dom_rows,       \* history: how many records of jobs were read from the rendered table
    d_how,          \* history: how the last row went in the details loop of the
                    \* current page: "none" | "no_link" | "ok" | "new_page" | "load" | "close"
    exc,            \* the exception raised: "none" | "RuntimeError" | "Error" | "re.error"
    outcome,        \* "none" | "returned" | "raised"
    result          \* the list scrape_jobs returns

svars == <<pc, arg, installed, pnum, all_jobs, log, r_jobs, r_html, page_jobs, di, browser,
           detail_open, shown, search, dom_rows, d_how, exc, outcome, result>>

vars == <<fvars, dvars, svars>>

(***************************************************************************)
(* Bounds of the model.                                                    *)
(***************************************************************************)
MaxKeywords == 1        \* longest keyword list of a first call to filter_jobs
MaxBlocks == 2          \* most JSON-LD script blocks of a detail page
MaxPages == 3           \* largest max_pages of a static call of scrape_jobs
MaxRenderedPages == 2   \* largest max_pages of a rendered call of scrape_jobs

(***************************************************************************)
(* Characters and strings.                                                 *)
(***************************************************************************)
UpperLetters == <<"A","B","C","D","E","F","G","H","I","J","K","L","M",
                  "N","O","P","Q","R","S","T","U","V","W","X","Y","Z">>
LowerLetters == <<"a","b","c","d","e","f","g","h","i","j","k","l","m",
                  "n","o","p","q","r","s","t","u","v","w","x","y","z">>
Digits == <<"0","1","2","3","4","5","6","7","8","9">>

IsUpper(c) == \E i \in 1..26 : UpperLetters[i] = c
IsLowerLetter(c) == \E i \in 1..26 : LowerLetters[i] = c
IsDigit(c) == \E i \in 1..10 : Digits[i] = c
DigitVal(c) == (CHOOSE i \in 1..10 : Digits[i] = c) - 1

\* str.lower() on one character (ASCII letters)
LowerChar(c) ==
    IF IsUpper(c) THEN LowerLetters[CHOOSE i \in 1..26 : UpperLetters[i] = c] ELSE c

\* str.lower()
lower(s) == [i \in 1..Len(s) |-> LowerChar(s[i])]

\* needle in hay
Contains(hay, needle) ==
    \E i \in 0..(Len(hay) - Len(needle)) : SubSeq(hay, i + 1, i + Len(needle)) = needle

\* sep.join(parts)
RECURSIVE Join(_, _)
Join(parts, sep) ==
    IF Len(parts) = 0 THEN << >>
    ELSE IF Len(parts) = 1 THEN parts[1]
    ELSE parts[1] \o sep \o Join(Tail(parts), sep)

(***************************************************************************)
(* Records (job dicts).  A dict is a function from its keys to strings;    *)
(* the keys keep the insertion order of the dict literals of the code.     *)
(***************************************************************************)
FieldOrder == <<"Position ID", "Position Title", "Category", "City", "Country",
                "Duration", "Key Programming & Technical Skills", "Deadline",
                "_detail_href">>
PersistedFields == {FieldOrder[i] : i \in 1..8}

\* the dict literal of parse_jobs_from_html
job_dict(pid, title, category, city, country) ==
    [f \in PersistedFields |->
        CASE f = "Position ID" -> pid
          [] f = "Position Title" -> title
          [] f = "Category" -> category
          [] f = "City" -> city
          [] f = "Country" -> country
          [] OTHER -> << >>]

\* list(j.values()), in key order
values(j) ==
    LET idx == SelectSeq([i \in 1..Len(FieldOrder) |-> i],
                         LAMBDA i : FieldOrder[i] \in DOMAIN j)
    IN [k \in 1..Len(idx) |-> j[FieldOrder[idx[k]]]]

(***************************************************************************)
(* filter_jobs (src/scraper.py:100-129).                                   *)
(*                                                                         *)
(* keywords is [none |-> BOOLEAN, list |-> sequence of strings]: None and  *)
(* the empty list are both falsy.  Of the regular expressions, the model   *)
(* keeps literal characters, "." (any character) and an unbalanced "(",    *)
(* which re.compile rejects.                                               *)
(***************************************************************************)
NoKeywords == [none |-> TRUE, list |-> << >>]
KeywordList(l) == [none |-> FALSE, list |-> l]

\* bool(keywords)
truthy(keywords) == ~keywords.none /\ Len(keywords.list) > 0

\* re.compile(k, re.IGNORECASE) succeeds
re_compiles(k) == \A i \in 1..Len(k) : k[i] # "("

\* bool(re.compile(k, re.IGNORECASE).search(hay))
re_search(k, hay) ==
    \E i \in 0..(Len(hay) - Len(k)) :
        \A n \in 1..Len(k) : k[n] = "." \/ LowerChar(k[n]) = LowerChar(hay[i + n])

any(bools) == \E i \in 1..Len(bools) : bools[i]
all(bools) == \A i \in 1..Len(bools) : bools[i]

\* line 118: hay = " ".join([str(v) for v in j.values()])
haystack(j) == Join(values(j), <<" ">>)

\* matches_of with the haystack and the keywords compared case-sensitively
matches_of_case_sensitive(j, kws, use_regex) ==
    [k \in 1..Len(kws) |->
        IF use_regex THEN re_search(kws[k], haystack(j))
        ELSE Contains(haystack(j), kws[k])]

\* lines 119-123: the list of per-keyword matches of one job
matches_of(j, kws, use_regex) ==
    [k \in 1..Len(kws) |->
        IF use_regex THEN re_search(kws[k], haystack(j))
        ELSE Contains(lower(haystack(j)), lower(kws[k]))]

\* appended with the test of mode 'any' made with all()
appended_any_as_all(ms, match_mode) ==
    IF match_mode = "any" /\ all(ms) THEN TRUE
    ELSE IF match_mode = "all" /\ all(ms) THEN TRUE
    ELSE FALSE

\* lines 125-128: whether the job is appended
appended(ms, match_mode) ==
    IF match_mode = "any" /\ any(ms) THEN TRUE
    ELSE IF match_mode = "all" /\ all(ms) THEN TRUE
    ELSE FALSE

\* lines 116-129: the loop over jobs, from index i, with the list built so far
RECURSIVE filter_loop(_, _, _, _, _, _)
filter_loop(jobs, i, kws, match_mode, use_regex, filtered) ==
    IF i > Len(jobs) THEN filtered
    ELSE filter_loop(jobs, i + 1, kws, match_mode, use_regex,
                     IF appended(matches_of(jobs[i], kws, use_regex), match_mode)
                     THEN Append(filtered, jobs[i]) ELSE filtered)

\* line 112: re.compile raises re.error for one of the keywords
filter_raises(keywords, use_regex) ==
    truthy(keywords) /\ use_regex
        /\ \E i \in 1..Len(keywords.list) : ~re_compiles(keywords.list[i])

\* the value filter_jobs returns when it does not raise
filter_jobs(jobs, keywords, match_mode, use_regex) ==
    IF ~truthy(keywords) THEN jobs
    ELSE filter_loop(jobs, 1, keywords.list, match_mode, use_regex, << >>)

(***************************************************************************)
(* Text helpers of the detail-page parser.                                 *)
(***************************************************************************)
NBSP == "nbsp"      \* the one-character string '\xa0'

\* \s of the regular expressions, and the characters str.strip() removes
IsSpace(c) == c \in {" ", "\n", "\t", NBSP}
\* \w
IsWord(c) == IsDigit(c) \/ IsUpper(c) \/ IsLowerLetter(c) \/ c = "_"

Max(a, b) == IF a > b THEN a ELSE b
Min(a, b) == IF a < b THEN a ELSE b

\* s[i:] and s[i:j] of Python, with 0-based i and j already clamped by the caller
Slice(s, i, j) == SubSeq(s, i + 1, Min(j, Len(s)))

RECURSIVE lstrip(_)
lstrip(s) == IF Len(s) > 0 /\ IsSpace(s[1]) THEN lstrip(Tail(s)) ELSE s
RECURSIVE rstrip(_)
rstrip(s) == IF Len(s) > 0 /\ IsSpace(s[Len(s)]) THEN rstrip(SubSeq(s, 1, Len(s) - 1)) ELSE s
\* str.strip()
strip(s) == rstrip(lstrip(s))

\* s.replace(x + y, ''), for a two-character pattern
RECURSIVE remove2(_, _, _)
remove2(s, x, y) ==
    IF Len(s) < 2 THEN s
    ELSE IF s[1] = x /\ s[2] = y THEN remove2(SubSeq(s, 3, Len(s)), x, y)
    ELSE <<s[1]>> \o remove2(Tail(s), x, y)

\* s.replace(x, y), for one-character strings
replace1(s, x, y) == [i \in 1..Len(s) |-> IF s[i] = x THEN y ELSE s[i]]

\* s.find(t): the 0-based index of the first occurrence, -1 when there is none
find(s, t) ==
    IF Contains(s, t)
    THEN CHOOSE i \in 0..(Len(s) - Len(t)) :
            /\ SubSeq(s, i + 1, i + Len(t)) = t
            /\ \A k \in 0..(i - 1) : SubSeq(s, k + 1, k + Len(t)) # t
    ELSE -1

\* the position after the longest run of \s starting at position p (1-based)
RECURSIVE skip_ws(_, _)
skip_ws(s, p) == IF p <= Len(s) /\ IsSpace(s[p]) THEN skip_ws(s, p + 1) ELSE p

\* the position after the longest run of [\s,] starting at position p
RECURSIVE skip_sep(_, _)
skip_sep(s, p) ==
    IF p <= Len(s) /\ (IsSpace(s[p]) \/ s[p] = ",") THEN skip_sep(s, p + 1) ELSE p

\* the position after the longest run of \d starting at position p
RECURSIVE skip_digits(_, _)
skip_digits(s, p) == IF p <= Len(s) /\ IsDigit(s[p]) THEN skip_digits(s, p + 1) ELSE p

\* n characters of \d start at position p
digits_at(s, p, n) == p + n - 1 <= Len(s) /\ \A k \in p..(p + n - 1) : IsDigit(s[k])

\* int() of a string of digits
RECURSIVE to_int(_)
to_int(s) == IF Len(s) = 0 THEN 0 ELSE 10 * to_int(SubSeq(s, 1, Len(s) - 1)) + DigitVal(s[Len(s)])

\* the literal t (lower case) starts at position p of s, ignoring case (re.I)
lit_at(s, p, t) == p + Len(t) - 1 <= Len(s) /\ lower(SubSeq(s, p, p + Len(t) - 1)) = t

\* (?:st|nd|rd|th) at position p, ignoring case
ordinal_at(s, p) ==
    \/ lit_at(s, p, <<"s","t">>) \/ lit_at(s, p, <<"n","d">>)
    \/ lit_at(s, p, <<"r","d">>) \/ lit_at(s, p, <<"t","h">>)

\* \b at position p: between s[p-1] and s[p]
word_boundary(s, p) ==
    (p - 1 >= 1 /\ IsWord(s[p - 1])) # (p <= Len(s) /\ IsWord(s[p]))

(***************************************************************************)
(* Month names: jan(?:uary)?|feb(?:ruary)?|...|dec(?:ember)? and the %B,   *)
(* %b tables of strptime.                                                  *)
(***************************************************************************)
MonthNames == <<
    <<"j","a","n","u","a","r","y">>, <<"f","e","b","r","u","a","r","y">>,
    <<"m","a","r","c","h">>, <<"a","p","r","i","l">>, <<"m","a","y">>,
    <<"j","u","n","e">>, <<"j","u","l","y">>, <<"a","u","g","u","s","t">>,
    <<"s","e","p","t","e","m","b","e","r">>, <<"o","c","t","o","b","e","r">>,
    <<"n","o","v","e","m","b","e","r">>, <<"d","e","c","e","m","b","e","r">> >>
MonthAbbr(m) == SubSeq(MonthNames[m], 1, 3)

\* the lengths a month alternative can match at position p: the full name (the
\* optional suffix is greedy) and the abbreviation
month_lens_at(s, p) ==
    IF p + 2 > Len(s) \/ ~(\E m \in 1..12 : MonthAbbr(m) = lower(SubSeq(s, p, p + 2)))
    THEN {}
    ELSE LET m == CHOOSE k \in 1..12 : MonthAbbr(k) = lower(SubSeq(s, p, p + 2))
         IN {3} \cup (IF lit_at(s, p, MonthNames[m]) THEN {Len(MonthNames[m])} ELSE {})

\* the month number a captured month text stands for in strptime's %B, then %b
month_number(mon) ==
    IF \E m \in 1..12 : lower(mon) = MonthNames[m]
    THEN CHOOSE m \in 1..12 : lower(mon) = MonthNames[m]
    ELSE IF \E m \in 1..12 : lower(mon) = MonthAbbr(m)
    THEN CHOOSE m \in 1..12 : lower(mon) = MonthAbbr(m)
    ELSE 0

is_leap(y) == (y % 4 = 0 /\ y % 100 # 0) \/ y % 400 = 0
days_in_month(y, m) ==
    IF m = 2 THEN (IF is_leap(y) THEN 29 ELSE 28)
    ELSE IF m \in {4, 6, 9, 11} THEN 30 ELSE 31

\* two or four digits, zero padded
two_digits(n) == <<Digits[((n \div 10) % 10) + 1], Digits[(n % 10) + 1]>>
four_digits(n) == two_digits(n \div 100) \o two_digits(n % 100)
\* date.isoformat()
isoformat(y, m, d) == four_digits(y) \o <<"-">> \o two_digits(m) \o <<"-">> \o two_digits(d)

(***************************************************************************)
(* parse_date_string (src/scraper.py:394-426).                             *)
(***************************************************************************)
NoMatch == [ok |-> FALSE, day |-> << >>, mon |-> << >>, year |-> << >>]

\* where the month may start after the day that ends before position p, in
\* (\d{1,2})\s*(?:st|nd|rd|th|,)??\s*(month): after the white space, or after
\* the white space, one ordinal suffix or comma, and more white space
month_starts_1(s, p) ==
    LET a == skip_ws(s, p)
    IN {a} \cup (IF ordinal_at(s, a) THEN {skip_ws(s, a + 2)} ELSE {})
           \cup (IF a <= Len(s) /\ s[a] = "," THEN {skip_ws(s, a + 1)} ELSE {})

\* [\s,]+(\d{4}) matches at position r
sep_year_at(s, r) == skip_sep(s, r) > r /\ digits_at(s, skip_sep(s, r), 4)
year_at(s, r) == SubSeq(s, skip_sep(s, r), skip_sep(s, r) + 3)

\* the ways the first pattern (line 399: day, month, year) matches at position i
matches_1_at(s, i) ==
    IF i > Len(s) \/ ~IsDigit(s[i]) THEN {}
    ELSE UNION {UNION {{[dlen |-> dlen, q |-> q, n |-> n] :
                          n \in {k \in month_lens_at(s, q) : sep_year_at(s, q + k)}} :
                      q \in month_starts_1(s, i + dlen)} :
                  dlen \in {d \in {1, 2} : digits_at(s, i, d)}}

\* re.search of the first pattern, scanning from position i: the leftmost match
\* and its three groups
RECURSIVE search_1_from(_, _)
search_1_from(s, i) ==
    IF i > Len(s) THEN NoMatch
    ELSE IF matches_1_at(s, i) # {}
    THEN LET t == CHOOSE x \in matches_1_at(s, i) : TRUE
         IN [ok |-> TRUE, day |-> SubSeq(s, i, i + t.dlen - 1),
             mon |-> SubSeq(s, t.q, t.q + t.n - 1), year |-> year_at(s, t.q + t.n)]
    ELSE search_1_from(s, i + 1)

search_1(s) == search_1_from(s, 1)

\* the ways the second pattern (line 412: month, day, year) matches at position i
matches_2_at(s, i) ==
    UNION {{[n |-> n, dlen |-> dlen] :
              dlen \in {d \in {1, 2} : /\ digits_at(s, skip_ws(s, i + n), d)
                                       /\ sep_year_at(s, skip_ws(s, i + n) + d)}} :
           n \in month_lens_at(s, i)}

\* re.search of the second pattern, scanning from position i
RECURSIVE search_2_from(_, _)
search_2_from(s, i) ==
    IF i > Len(s) THEN NoMatch
    ELSE IF matches_2_at(s, i) # {}
    THEN LET t == CHOOSE x \in matches_2_at(s, i) : TRUE
             p == skip_ws(s, i + t.n)
         IN [ok |-> TRUE, day |-> SubSeq(s, p, p + t.dlen - 1),
             mon |-> SubSeq(s, i, i + t.n - 1), year |-> year_at(s, p + t.dlen)]
    ELSE search_2_from(s, i + 1)

search_2(s) == search_2_from(s, 1)

\* datetime.strptime(f"{day} {mon} {year}", "%d %B %Y") succeeds: mon is a full
\* month name, %Y reads exactly four digits of str(year), the day is in the month
strptime_B_ok(day, mon, year) ==
    /\ \E m \in 1..12 : lower(mon) = MonthNames[m]
    /\ year >= 1000
    /\ day >= 1 /\ day <= days_in_month(year, month_number(mon))

\* the same with "%d %b %Y": mon is an abbreviated month name
strptime_b_ok(day, mon, year) ==
    /\ \E m \in 1..12 : lower(mon) = MonthAbbr(m)
    /\ year >= 1000
    /\ day >= 1 /\ day <= days_in_month(year, month_number(mon))

\* lines 401-411 and 414-425: the groups to a date, or the string s
date_of_groups(m, s) ==
    LET day == to_int(m.day)
        year == to_int(m.year)
    IN IF strptime_B_ok(day, m.mon, year) \/ strptime_b_ok(day, m.mon, year)
       THEN isoformat(year, month_number(m.mon), day)
       ELSE s

\* line 395
strip_ordinal_letters(s0) ==
    remove2(remove2(remove2(remove2(strip(s0), "s", "t"), "n", "d"), "r", "d"), "t", "h")

parse_date_string(s0) ==
    LET s == strip_ordinal_letters(s0)
        m == search_1(s)
        m2 == search_2(s)
    IN IF m.ok THEN date_of_groups(m, s)
       ELSE IF m2.ok THEN date_of_groups(m2, s)
       ELSE s

(***************************************************************************)
(* date_re (src/scraper.py:518 and 528) and the ordinal normalisation of   *)
(* line 521.                                                               *)
(***************************************************************************)
\* where the month may start after the day that ends before position p, in
\* \d{1,2}\s*(?:st|nd|rd|th)?\s+ : at least one white space before the month
month_starts_re(s, p) ==
    LET a == skip_ws(s, p)
    IN (IF a > p THEN {a} ELSE {})
         \cup (IF ordinal_at(s, a) /\ skip_ws(s, a + 2) > a + 2
               THEN {skip_ws(s, a + 2)} ELSE {})

\* the positions after the matches of date_re that start at position i
date_re_ends_at(s, i) ==
    IF ~word_boundary(s, i) THEN {}
    ELSE LET starts == {i} \cup UNION {month_starts_re(s, i + dlen) :
                                          dlen \in {d \in {1, 2} : digits_at(s, i, d)}}
         IN UNION {{skip_sep(s, q + n) + 4 :
                      n \in {k \in month_lens_at(s, q) :
                                /\ sep_year_at(s, q + k)
                                /\ word_boundary(s, skip_sep(s, q + k) + 4)}} :
                   q \in starts}

\* date_re.search(s), scanning from position i: [ok, text], text the matched
\* m.group(0)
RECURSIVE date_re_search_from(_, _)
date_re_search_from(s, i) ==
    IF i > Len(s) THEN [ok |-> FALSE, text |-> << >>]
    ELSE IF date_re_ends_at(s, i) # {}
    THEN [ok |-> TRUE, text |-> SubSeq(s, i, (CHOOSE x \in date_re_ends_at(s, i) : TRUE) - 1)]
    ELSE date_re_search_from(s, i + 1)

date_re_search(s) == date_re_search_from(s, 1)

\* re.sub(r"(\d+)(st|nd|rd|th)", r"\1", s, flags=re.I)
RECURSIVE sub_ordinals(_)
sub_ordinals(s) ==
    IF Len(s) = 0 THEN s
    ELSE IF IsDigit(s[1])
    THEN LET e == skip_digits(s, 1)
         IN SubSeq(s, 1, e - 1)
              \o sub_ordinals(SubSeq(s, IF ordinal_at(s, e) THEN e + 2 ELSE e, Len(s)))
    ELSE <<s[1]>> \o sub_ordinals(Tail(s))

(***************************************************************************)
(* JSON values of the JSON-LD blocks.  A value is [t, s, items]: t its     *)
(* type, s the text of a string or number, items the entries [k, v] of an  *)
(* object (k the key) or of an array (k unused).                           *)
(***************************************************************************)
J_null == [t |-> "null", s |-> << >>, items |-> << >>]
J_str(x) == [t |-> "str", s |-> x, items |-> << >>]
J_num(x) == [t |-> "num", s |-> x, items |-> << >>]
J_obj(entries) == [t |-> "dict", s |-> << >>, items |-> entries]
J_arr(elems) == [t |-> "list", s |-> << >>,
                 items |-> [i \in 1..Len(elems) |-> [k |-> "", v |-> elems[i]]]]
KV(key, val) == [k |-> key, v |-> val]

\* bool(o) of a decoded JSON value
json_truthy(o) ==
    CASE o.t = "null" -> FALSE
      [] o.t = "str" -> Len(o.s) > 0
      [] o.t = "num" -> to_int(o.s) # 0
      [] OTHER -> Len(o.items) > 0

\* str(o): the text of a string or of a number; the repr of an object or array
\* starts with its bracket, which is all the date patterns can see of it
py_str(o) ==
    CASE o.t \in {"str", "num"} -> o.s
      [] o.t = "dict" -> <<"{", "}">>
      [] o.t = "list" -> <<"[", "]">>
      [] OTHER -> <<"N","o","n","e">>

\* _find_valid (lines 463-476): depth-first, the first truthy validThrough
RECURSIVE find_valid(_)
RECURSIVE find_valid_in(_, _)
find_valid(o) ==
    IF o.t = "dict"
    THEN IF \E i \in 1..Len(o.items) :
                o.items[i].k = "validThrough" /\ json_truthy(o.items[i].v)
         THEN o.items[CHOOSE i \in 1..Len(o.items) :
                        o.items[i].k = "validThrough" /\ json_truthy(o.items[i].v)].v
         ELSE find_valid_in(o.items, 1)
    ELSE IF o.t = "list" THEN find_valid_in(o.items, 1)
    ELSE J_null

\* the loops of lines 467-470 and 472-475, from entry i
find_valid_in(items, i) ==
    IF i > Len(items) THEN J_null
    ELSE LET r == find_valid(items[i].v)
         IN IF json_truthy(r) THEN r ELSE find_valid_in(items, i + 1)

(***************************************************************************)
(* datetime.fromisoformat (line 485), as Python 3.7 to 3.10 read it:       *)
(* YYYY-MM-DD, then optionally any one separator character and             *)
(* HH[:MM[:SS[.fff[fff]]]] with an optional offset +HH:MM or -HH:MM.       *)
(***************************************************************************)
num_at(s, p, n) == to_int(SubSeq(s, p, p + n - 1))

iso_date_ok(s) ==
    /\ Len(s) >= 10
    /\ digits_at(s, 1, 4) /\ s[5] = "-" /\ digits_at(s, 6, 2) /\ s[8] = "-"
    /\ digits_at(s, 9, 2)
    /\ num_at(s, 1, 4) >= 1
    /\ num_at(s, 6, 2) >= 1 /\ num_at(s, 6, 2) <= 12
    /\ num_at(s, 9, 2) >= 1
    /\ num_at(s, 9, 2) <= days_in_month(num_at(s, 1, 4), num_at(s, 6, 2))

\* HH[:MM[:SS[.fff[fff]]]]
iso_clock_ok(t) ==
    /\ Len(t) \in {2, 5, 8, 12, 15}
    /\ digits_at(t, 1, 2) /\ num_at(t, 1, 2) < 24
    /\ Len(t) >= 5 => (t[3] = ":" /\ digits_at(t, 4, 2) /\ num_at(t, 4, 2) < 60)
    /\ Len(t) >= 8 => (t[6] = ":" /\ digits_at(t, 7, 2) /\ num_at(t, 7, 2) < 60)
    /\ Len(t) >= 12 => (t[9] = "." /\ digits_at(t, 10, Len(t) - 9))

\* +HH:MM or -HH:MM
iso_offset_ok(t) ==
    /\ Len(t) = 6 /\ t[1] \in {"+", "-"}
    /\ digits_at(t, 2, 2) /\ num_at(t, 2, 2) < 24
    /\ t[4] = ":" /\ digits_at(t, 5, 2) /\ num_at(t, 5, 2) < 60

iso_time_ok(t) ==
    \/ iso_clock_ok(t)
    \/ \E n \in 1..Len(t) :
          /\ t[n] \in {"+", "-"}
          /\ iso_clock_ok(SubSeq(t, 1, n - 1))
          /\ iso_offset_ok(SubSeq(t, n, Len(t)))

fromisoformat_ok(s) ==
    /\ iso_date_ok(s)
    /\ Len(s) # 11
    /\ Len(s) > 11 => iso_time_ok(SubSeq(s, 12, Len(s)))

\* lines 484-486: dt.date().isoformat() of the parsed value
fromisoformat_date(s) == isoformat(num_at(s, 1, 4), num_at(s, 6, 2), num_at(s, 9, 2))

\* re.match(r"(\d{4})-(\d{2})-(\d{2})", s) and re.match(r"(\d{4})-(\d{2})", s)
match_ymd(s) ==
    digits_at(s, 1, 4) /\ Len(s) >= 10 /\ s[5] = "-" /\ digits_at(s, 6, 2)
        /\ s[8] = "-" /\ digits_at(s, 9, 2)
match_ym(s) == digits_at(s, 1, 4) /\ Len(s) >= 7 /\ s[5] = "-" /\ digits_at(s, 6, 2)

\* deadline_of_valid with a year-and-month value emitted without a day
deadline_of_valid_month_as_is(vt) ==
    LET s == strip(py_str(vt))
        s2 == IF Len(s) > 0 /\ s[Len(s)] = "Z"
              THEN SubSeq(s, 1, Len(s) - 1) \o <<"+","0","0",":","0","0">> ELSE s
    IN IF fromisoformat_ok(s2) THEN fromisoformat_date(s2)
       ELSE IF match_ymd(s)
       THEN SubSeq(s, 1, 4) \o <<"-">> \o SubSeq(s, 6, 7) \o <<"-">> \o SubSeq(s, 9, 10)
       ELSE IF match_ym(s)
       THEN SubSeq(s, 1, 4) \o <<"-">> \o SubSeq(s, 6, 7)
       ELSE << >>

\* lines 480-498: the deadline a validThrough value gives, << >> when it gives none
deadline_of_valid(vt) ==
    LET s == strip(py_str(vt))
        s2 == IF Len(s) > 0 /\ s[Len(s)] = "Z"
              THEN SubSeq(s, 1, Len(s) - 1) \o <<"+","0","0",":","0","0">> ELSE s
    IN IF fromisoformat_ok(s2) THEN fromisoformat_date(s2)
       ELSE IF match_ymd(s)
       THEN SubSeq(s, 1, 4) \o <<"-">> \o SubSeq(s, 6, 7) \o <<"-">> \o SubSeq(s, 9, 10)
       ELSE IF match_ym(s)
       THEN SubSeq(s, 1, 4) \o <<"-">> \o SubSeq(s, 6, 7) \o <<"-","0","1">>
       ELSE << >>

(***************************************************************************)
(* A detail page, as BeautifulSoup presents it to parse_job_detail_html:   *)
(*   ldjson    the script blocks of type application/ld+json, in document  *)
(*             order, each [txt, json]: txt "empty" (no text), "json"      *)
(*             (json.loads decodes the text to json), "wrapped" (the text  *)
(*             does not decode but its first {...} span decodes to json)   *)
(*             or "garbage" (neither decodes);                             *)
(*   texts     the stripped, non-empty visible text nodes, in order;       *)
(*   duration, skills   what the Duration and Skills heuristics (lines     *)
(*             428-443, 534-572) extract from the page.                    *)
(***************************************************************************)
\* lines 452-462: parsed_json of a block, J_null standing for None
parsed_json(block) == IF block.txt \in {"json", "wrapped"} THEN block.json ELSE J_null

\* lines 448-498: the deadline of one block, << >> when the block sets none
block_deadline(block) ==
    IF block.txt = "empty" THEN << >>
    ELSE IF ~json_truthy(parsed_json(block)) THEN << >>
    ELSE LET vt == find_valid(parsed_json(block))
         IN IF json_truthy(vt) THEN deadline_of_valid(vt) ELSE << >>

\* the loop of line 448 from block i: the first deadline a block sets
RECURSIVE jsonld_deadline(_, _)
jsonld_deadline(blocks, i) ==
    IF i > Len(blocks) THEN << >>
    ELSE LET deadline == block_deadline(blocks[i])
         IN IF deadline # << >> THEN deadline ELSE jsonld_deadline(blocks, i + 1)

WindowRadius == 200

\* line 391
full_visible_text(texts) == Join(texts, <<"\n">>)

\* line 508: the label pattern; each alternative contains "closing" or "deadline"
has_label(txt) ==
    \/ Contains(lower(txt), <<"c","l","o","s","i","n","g">>)
    \/ Contains(lower(txt), <<"d","e","a","d","l","i","n","e">>)

\* lines 514-521: the normalised window around the first occurrence of txt
window_norm(full, txt) ==
    LET idx == find(full, txt)
        window == Slice(full, Max(0, idx - WindowRadius), idx + WindowRadius)
    IN sub_ordinals(replace1(window, NBSP, " "))

\* lines 507-525: the loop over the visible text nodes from node i
RECURSIVE label_deadline(_, _)
label_deadline(texts, i) ==
    IF i > Len(texts) THEN << >>
    ELSE LET m == IF has_label(texts[i])
                  THEN date_re_search(window_norm(full_visible_text(texts), texts[i]))
                  ELSE [ok |-> FALSE, text |-> << >>]
         IN IF m.ok THEN parse_date_string(m.text) ELSE label_deadline(texts, i + 1)

\* lines 526-532
unscoped_deadline(texts) ==
    LET m == date_re_search(full_visible_text(texts))
    IN IF m.ok THEN parse_date_string(m.text) ELSE << >>

\* lines 505-532: the visible-text heuristics
visible_deadline(texts) ==
    LET deadline == label_deadline(texts, 1)
    IN IF deadline # << >> THEN deadline ELSE unscoped_deadline(texts)

\* lines 445-532 and 568-569
deadline_of(doc) ==
    LET deadline == jsonld_deadline(doc.ldjson, 1)
    IN strip(IF deadline # << >> THEN deadline ELSE visible_deadline(doc.texts))

parse_job_detail_html(doc) ==
    [f \in {"Duration", "Key Programming & Technical Skills", "Deadline"} |->
        CASE f = "Duration" -> doc.duration
          [] f = "Key Programming & Technical Skills" -> doc.skills
          [] OTHER -> deadline_of(doc)]

(***************************************************************************)
(* parse_jobs_from_html (src/scraper.py:42-97).                            *)
(*                                                                         *)
(* A page is the markup as BeautifulSoup and the browser present it:       *)
(*   table  "none", "result" (the first table whose class contains         *)
(*          table-result-search) or "views" (that table also carries the   *)
(*          class views-table, which the locator of the driver requires)   *)
(*   rows   the tbody rows of that table, each [tds, href]: the texts of   *)
(*          its td cells and the href of its first anchor ("" when none)   *)
(*   lines  soup.get_text(separator="\n").splitlines()                     *)
(*   links  the values of the href attributes of the markup, in order      *)
(*   page_word, next_word   "Page" in html, "NEXT" in html                 *)
(***************************************************************************)
\* JOB_ID_RE matches at position p of s: J\d{4}-\d{4}
id_at(s, p) ==
    /\ p + 9 <= Len(s)
    /\ s[p] = "J" /\ digits_at(s, p + 1, 4) /\ s[p + 5] = "-" /\ digits_at(s, p + 6, 4)

JOB_ID_RE_match(s) == id_at(s, 1)
JOB_ID_RE_search(s) == \E p \in 1..Len(s) : id_at(s, p)

\* s.split(sep) for a one-character sep: the pieces after position i, cur being
\* the piece under construction
RECURSIVE split_from(_, _, _, _)
split_from(s, sep, i, cur) ==
    IF i > Len(s) THEN <<cur>>
    ELSE IF s[i] = sep THEN <<cur>> \o split_from(s, sep, i + 1, << >>)
    ELSE split_from(s, sep, i + 1, Append(cur, s[i]))
split(s, sep) == split_from(s, sep, 1, << >>)

\* [x.strip() for x in xs if x.strip()]
stripped_nonempty(xs) ==
    LET st == [i \in 1..Len(xs) |-> strip(xs[i])]
    IN SelectSeq(st, LAMBDA x : Len(x) > 0)

\* xs[k] if len(xs) > k else "" (k counted from 0)
item_or_empty(xs, k) == IF Len(xs) > k THEN xs[k + 1] ELSE << >>

\* lines 52-73: the records of the table rows from index i on
RECURSIVE table_jobs(_, _)
table_jobs(rows, i) ==
    IF i > Len(rows) THEN << >>
    ELSE LET tds == rows[i].tds
         IN IF Len(tds) = 0 THEN table_jobs(rows, i + 1)
            ELSE <<job_dict(strip(tds[1]), strip(item_or_empty(tds, 1)),
                            strip(item_or_empty(tds, 2)), strip(item_or_empty(tds, 3)),
                            strip(item_or_empty(tds, 4)))>>
                 \o table_jobs(rows, i + 1)

\* lines 79-96: the records of the text lines from index i on
RECURSIVE fallback_jobs(_, _)
fallback_jobs(lines, i) ==
    IF i > Len(lines) THEN << >>
    ELSE LET parts == stripped_nonempty(split(lines[i], "|"))
         IN IF JOB_ID_RE_search(lines[i]) /\ Len(parts) >= 2 /\ JOB_ID_RE_match(parts[1])
            THEN <<job_dict(parts[1], parts[2], item_or_empty(parts, 2),
                            item_or_empty(parts, 3), item_or_empty(parts, 4))>>
                 \o fallback_jobs(lines, i + 1)
            ELSE fallback_jobs(lines, i + 1)

\* a parser that falls through to the text lines when the table gives no record
parse_jobs_from_html_fallthrough(html) ==
    IF html.table # "none" /\ Len(table_jobs(html.rows, 1)) > 0
    THEN table_jobs(html.rows, 1)
    ELSE fallback_jobs(stripped_nonempty(html.lines), 1)

\* lines 47-97: the table, when there is one, decides alone (return at line 73)
parse_jobs_from_html(html) ==
    IF html.table # "none" THEN table_jobs(html.rows, 1)
    ELSE fallback_jobs(stripped_nonempty(html.lines), 1)

(***************************************************************************)
(* Helpers of fetch_with_playwright (src/scraper.py:165-363) and of        *)
(* scrape_jobs (src/scraper.py:581-627).                                   *)
(***************************************************************************)
BASE_URL == <<"h","t","t","p","s",":","/","/","c","g","i",".","n","j","o","y","n",".",
              "c","o","m","/","c","o","r","p","/","x","w","e","b","/","x","w","e","b",
              ".","a","s","p","?","N","T","K","N","=","c","&","c","l","i","d","=","2",
              "1","0","0","1","&","P","a","g","e","=","j","o","b","l","i","s","t","i",
              "n","g">>

\* str(n) for n >= 0
RECURSIVE str_int(_)
str_int(n) == IF n < 10 THEN <<Digits[n + 1]>> ELSE str_int(n \div 10) \o <<Digits[(n % 10) + 1]>>

\* line 595: base = url or BASE_URL (None and '' are both falsy, modelled as << >>)
base_of(url) == IF Len(url) > 0 THEN url ELSE BASE_URL

\* lines 609-611
page_url(base, p) ==
    IF p > 1 THEN base \o <<"&","p","a","g","e","n","u","m","=">> \o str_int(p) ELSE base

\* lines 616-618 with continue in the place of break
after_fetch_error_continue(p) == [pc |-> "s_loop", p |-> p + 1]

\* lines 616-618: the except clause of the fetch ends the loop
after_fetch_error(p) == [pc |-> "filter", p |-> p]

\* lines 622-623 with the loop never ended by an empty page
static_break_never(jobs) == FALSE

\* lines 622-623: if not jobs: break
static_break(jobs) == Len(jobs) = 0

\* line 621 with the records of an already seen Position ID left out
extend_unique(all_jobs0, jobs0) ==
    all_jobs0 \o SelectSeq(jobs0, LAMBDA j :
        \A i \in 1..Len(all_jobs0) : all_jobs0[i]["Position ID"] # j["Position ID"])

\* line 621 and line 348: list.extend
extend(all_jobs0, jobs0) == all_jobs0 \o jobs0

\* lines 600-602: search_kw, None (modelled as << >>) when keywords is falsy
search_kw_of(keywords) == IF truthy(keywords) THEN Join(keywords.list, <<" ">>) ELSE << >>

\* lines 604-606 with the records gathered so far returned
except_return_gathered(gathered) == gathered

\* lines 604-606: return []
except_return(gathered) == << >>

\* scheme and host of a URL
origin(url) ==
    LET a == find(url, <<":","/","/">>)
        rest == SubSeq(url, a + 4, Len(url))
        b == find(rest, <<"/">>)
    IN IF a < 0 THEN << >> ELSE IF b < 0 THEN url ELSE SubSeq(url, 1, a + 3 + b)

\* urljoin(base, href) for an href that is a path starting with "/"
urljoin(base, href) == origin(base) \o href

\* lines 287-311: the dict of one row of the rendered table
dom_job(row, base) ==
    LET tds == row.tds
        cell(k) == IF Len(tds) > k THEN strip(tds[k + 1]) ELSE << >>
        detail_href == IF Len(row.href) > 0 THEN urljoin(base, row.href) ELSE << >>
    IN [f \in PersistedFields \cup {"_detail_href"} |->
          CASE f = "Position ID" -> cell(0)
            [] f = "Position Title" -> cell(1)
            [] f = "Category" -> cell(2)
            [] f = "City" -> cell(3)
            [] f = "Country" -> cell(4)
            [] f = "_detail_href" -> detail_href
            [] OTHER -> << >>]

\* lines 283-314: the rows the locator finds ('table.views-table.table-result-search
\* tbody tr'); the rows whose index is in failed raise while they are read and
\* are left out
located_rows(html) == IF html.table = "views" THEN html.rows ELSE << >>

RECURSIVE dom_jobs(_, _, _, _)
dom_jobs(rows, i, failed, base) ==
    IF i > Len(rows) THEN << >>
    ELSE (IF i \in failed THEN << >> ELSE <<dom_job(rows[i], base)>>)
         \o dom_jobs(rows, i + 1, failed, base)

\* lines 357-363: the first href of the markup that contains the position id,
\* ignoring case, joined to BASE_URL; None (modelled as << >>) when there is none
RECURSIVE first_link_with(_, _, _)
first_link_with(links, i, pid) ==
    IF i > Len(links) THEN << >>
    ELSE IF Contains(lower(links[i]), lower(pid)) THEN links[i]
    ELSE first_link_with(links, i + 1, pid)

find_detail_link_in_html(html, position_id) ==
    LET href == first_link_with(html.links, 1, position_id)
    IN IF Len(href) > 0 THEN urljoin(BASE_URL, href) ELSE << >>

\* lines 323-326: the detail link of a row, '' when it has none
detail_link(html, j) ==
    LET own == IF "_detail_href" \in DOMAIN j THEN j["_detail_href"] ELSE << >>
    IN IF Len(own) > 0 THEN own ELSE find_detail_link_in_html(html, j["Position ID"])

\* line 335: j.update(d)
update(j, d) == [f \in DOMAIN j \cup DOMAIN d |-> IF f \in DOMAIN d THEN d[f] ELSE j[f]]

\* lines 338-339 with the details loop left when a row fails (break)
detail_row_next_break(how, i, n) ==
    IF i = n \/ how \in {"new_page", "load", "close"} THEN "r_accumulate" ELSE "r_details"

\* lines 322-339: where the details loop goes after row i of n: to the next row,
\* whatever happened to row i (the except clause only logs)
detail_row_next(how, i, n) == IF i = n THEN "r_accumulate" ELSE "r_details"

\* lines 343-345 with the helper field left in place
keep_detail_href(j) == j

\* lines 343-345: j.pop('_detail_href', None)
pop_detail_href(j) == [f \in DOMAIN j \ {"_detail_href"} |-> j[f]]

\* the test of line 351 without its condition on the page index
end_of_results_any_page(html, n) == html.page_word /\ ~html.next_word

\* line 351: "Page" in html and "NEXT" not in html and pnum > 1
end_of_results(html, n) == html.page_word /\ ~html.next_word /\ n > 1

(***************************************************************************)
(* Inputs of the bounded checks.                                           *)
(***************************************************************************)
s_J1 == <<"J","0","0","0","1","-","0","0","0","1">>
s_J2 == <<"J","0","0","0","2","-","0","0","0","2">>
s_TestJob == <<"T","e","s","t"," ","J","o","b">>
s_Dev == <<"D","e","v">>
s_Eng == <<"E","n","g">>
s_Ops == <<"O","p","s">>
s_Toronto == <<"T","o","r","o","n","t","o">>
s_Canada == <<"C","a","n","a","d","a">>

j_A == job_dict(s_J1, s_TestJob, s_Eng, s_Toronto, s_Canada)
j_B == job_dict(s_J2, s_Dev, s_Ops, << >>, << >>)
j_C == job_dict(s_J1, s_Dev, << >>, << >>, << >>)

SampleJobLists == { << >>, <<j_A>>, <<j_A, j_B>>, <<j_B, j_C, j_A>>, <<j_C, j_C>> }

\* "DEV", "1 test" (spans the joining space), "", "j.b" and "("
SampleKeywords == {
    <<"D","E","V">>,
    <<"1"," ","t","e","s","t">>,
    << >>,
    <<"j",".","b">>,
    <<"(">> }

SeqsUpTo(S, n) == UNION {[1..k -> S] : k \in 0..n}

KeywordArgs == {NoKeywords} \cup {KeywordList(l) : l \in SeqsUpTo(SampleKeywords, MaxKeywords)}
MatchModes == {"any", "all", "first"}

s_v_date == <<"2","0","2","6","-","0","5","-","3","0">>
s_v_datetime_z == <<"2","0","2","6","-","0","1","-","3","0","T","2","3",":","5","9",":","5","9","Z">>
s_v_month == <<"2","0","2","6","-","0","5">>
s_v_short_day == <<"2","0","2","6","-","0","5","-","3">>
s_v_junk_tail == <<"2","0","2","6","-","0","5","-","3","0","j","u","n","k">>
s_v_bad_day == <<" ","2","0","2","6","-","0","2","-","3","0">>
s_v_soon == <<"s","o","o","n">>
s_v_2026 == <<"2","0","2","6">>
s_JobPosting == <<"J","o","b","P","o","s","t","i","n","g">>
s_4months == <<"4"," ","m","o","n","t","h","s">>
s_Python == <<"P","y","t","h","o","n">>
s_t_deadline_jan == <<"D","e","a","d","l","i","n","e",":"," ","3","0"," ","J","a","n","u","a","r","y"," ","2","0","2","6">>
s_t_apply == <<"A","p","p","l","y">>
s_t_closing_date == <<"C","l","o","s","i","n","g"," ","d","a","t","e">>
s_t_1st_august == <<"1","s","t"," ","A","u","g","u","s","t"," ","2","0","2","6">>
s_t_posted_feb30 == <<"P","o","s","t","e","d"," ","3","0"," ","F","e","b","r","u","a","r","y"," ","2","0","2","6">>
s_t_deadline == <<"D","e","a","d","l","i","n","e">>
s_t_tbd == <<"T","B","D">>
s_t_posted_mar == <<"P","o","s","t","e","d"," ","5"," ","M","a","r"," ","2","0","2","6">>
s_t_starts_may == <<"S","t","a","r","t","s"," ","M","a","y"," ","2","0","2","6">>
s_t_about == <<"A","b","o","u","t"," ","u","s">>
s_t_closing_nov == <<"c","l","o","s","i","n","g",NBSP,"2","2","n","d"," ","N","o","v"," ","2","0","2","6">>
s_t_deadline_us == <<"D","e","a","d","l","i","n","e",":"," ","J","a","n","u","a","r","y"," ","3","0",","," ","2","0","2","6">>

\* validThrough values: a date, a date-time with Z, a year and month, a date with
\* a one-digit day, a date followed by text, a date that is not in the calendar
\* (with a leading space), a word, and the number 2026
Block(kind, value) == [txt |-> kind, json |-> value]
b_empty == Block("empty", J_null)
b_garbage == Block("garbage", J_null)
b_empty_obj == Block("json", J_obj(<< >>))
b_date == Block("json", J_obj(<<KV("@type", J_str(s_JobPosting)),
                                KV("validThrough", J_str(s_v_date))>>))
b_datetime_z == Block("json", J_obj(<<KV("validThrough", J_str(s_v_datetime_z))>>))
b_month == Block("json", J_obj(<<KV("validThrough", J_str(s_v_month))>>))
b_short_day == Block("wrapped", J_obj(<<KV("validThrough", J_str(s_v_short_day))>>))
b_nested == Block("json", J_arr(<<J_obj(<<KV("@type", J_str(s_JobPosting))>>),
                                  J_obj(<<KV("offer",
                                           J_obj(<<KV("validThrough", J_str(s_v_bad_day))>>))>>)>>))
b_soon == Block("json", J_obj(<<KV("validThrough", J_str(s_v_soon))>>))
b_falsy_outer == Block("json", J_obj(<<KV("validThrough", J_str(<< >>)),
                                       KV("inner", J_obj(<<KV("validThrough",
                                                            J_str(s_v_junk_tail))>>))>>))
b_number == Block("json", J_obj(<<KV("validThrough", J_num(s_v_2026))>>))

SampleBlocks == {b_empty, b_garbage, b_empty_obj, b_date, b_datetime_z, b_month,
                 b_short_day, b_nested, b_soon, b_falsy_outer, b_number}

SampleTexts == {
    << >>,
    <<s_t_deadline_jan>>,
    <<s_t_apply, s_t_closing_date, s_t_1st_august>>,
    <<s_t_posted_feb30>>,
    <<s_t_deadline, s_t_tbd, s_t_posted_mar>>,
    <<s_t_starts_may>>,
    <<s_t_about>>,
    <<s_t_closing_nov>>,
    <<s_t_deadline_us>> }

Doc(blocks, texts, duration, skills) ==
    [ldjson |-> blocks, texts |-> texts, duration |-> duration, skills |-> skills]
EmptyDoc == Doc(<< >>, << >>, << >>, << >>)
NoDetail == [f \in {"Duration", "Key Programming & Technical Skills", "Deadline"} |-> << >>]

SampleDocs ==
    {Doc(bs, ts, x[1], x[2]) :
        bs \in SeqsUpTo(SampleBlocks, MaxBlocks), ts \in SampleTexts,
        x \in {<<<< >>, << >>>>, <<s_4months, s_Python>>}}

\* ---- listing pages the site serves
Row(tds, href) == [tds |-> tds, href |-> href]
Page(table, rows, lines, links, page_word, next_word) ==
    [table |-> table, rows |-> rows, lines |-> lines, links |-> links,
     page_word |-> page_word, next_word |-> next_word]

s_href_J1 == <<"/","j","o","b","/","J","0","0","0","1","-","0","0","0","1">>
s_href_J2 == <<"/","j","o","b","/","J","0","0","0","2","-","0","0","0","2">>
s_href_css == <<"/","c","s","s">>
s_href_2 == <<"/","j","o","b","/","2">>
s_Careers == <<"C","a","r","e","e","r","s">>
s_line_J2 == <<" ","J","0","0","0","2","-","0","0","0","2"," ","|"," ","D","e","v"," ",
               "|"," ","O","p","s"," ">>
s_line_see == <<"s","e","e"," ","J","0","0","0","1","-","0","0","0","1"," ","|"," ",
                "D","e","v">>
s_cell_J1 == <<"\n"," ","J","0","0","0","1","-","0","0","0","1"," ">>
s_example == <<"h","t","t","p","s",":","/","/","e","x","a","m","p","l","e",".","l","o",
               "c","a","l">>

\* one row with five cells and a detail link; a next-page control
pg_one == Page("views",
               <<Row(<<s_cell_J1, s_TestJob, s_Eng, s_Toronto, s_Canada>>, s_href_J1)>>,
               << >>, <<s_href_css, s_href_J1>>, TRUE, TRUE)
\* a row of three cells whose link does not hold its Position ID, then a row of
\* two cells whose Position ID is that of pg_one; no next-page control
pg_two == Page("views",
               <<Row(<<s_J2, s_Dev, s_Ops>>, s_href_2), Row(<<s_J1, s_Dev>>, s_href_J1)>>,
               << >>, <<s_href_2, s_href_J1>>, TRUE, FALSE)
\* a results table without the class views-table whose only body row has no td,
\* and a text line the pipe-delimited reading would accept
pg_head == Page("result", <<Row(<< >>, << >>)>>, <<s_line_J2>>, << >>, FALSE, FALSE)
\* no table: pipe-delimited lines
pg_text == Page("none", << >>, <<s_Careers, s_line_J2, s_line_see>>, <<s_href_J2>>,
                FALSE, FALSE)
\* no table and no job line
pg_blank == Page("none", << >>, <<s_Careers>>, << >>, TRUE, FALSE)

PageNames == {"one", "two", "head", "text", "blank"}
markup(name) ==
    CASE name = "one" -> pg_one
      [] name = "two" -> pg_two
      [] name = "head" -> pg_head
      [] name = "text" -> pg_text
      [] OTHER -> pg_blank

\* ---- detail pages the site serves, by URL
doc_J1 == Doc(<<b_date>>, << >>, s_4months, s_Python)
doc_other == Doc(<< >>, <<s_t_starts_may>>, << >>, << >>)
\* each served detail page with the dict parse_job_detail_html returns for it
served_details ==
    <<[doc |-> doc_J1, d |-> parse_job_detail_html(doc_J1)],
      [doc |-> doc_other, d |-> parse_job_detail_html(doc_other)]>>
detail_served(url) == IF Contains(url, s_J1) THEN served_details[1] ELSE served_details[2]
detail_markup(url) == detail_served(url).doc

\* ---- calls of scrape_jobs
Call(url, keywords, match_mode, use_regex, max_pages, use_playwright, follow_details) ==
    [url |-> url, keywords |-> keywords, match_mode |-> match_mode,
     use_regex |-> use_regex, max_pages |-> max_pages,
     use_playwright |-> use_playwright, follow_details |-> follow_details]

Query(keywords, match_mode, use_regex) ==
    [keywords |-> keywords, match_mode |-> match_mode, use_regex |-> use_regex]
q_none == Query(NoKeywords, "any", FALSE)
q_dev == Query(KeywordList(<<<<"D","E","V">>>>), "any", FALSE)
q_all == Query(KeywordList(<<<<"D","E","V">>, <<"o","p","s">>>>), "all", FALSE)
q_regex == Query(KeywordList(<<<<"j",".","b">>>>), "any", TRUE)
q_bad == Query(KeywordList(<<<<"(">>>>), "any", TRUE)

StaticCalls ==
    {Call(<< >>, q.keywords, q.match_mode, q.use_regex, n, FALSE, f) :
        q \in {q_none, q_dev, q_all, q_regex, q_bad}, n \in 0..MaxPages, f \in BOOLEAN}
    \cup {Call(s_example, KeywordList(<<<<"T","e","s","t">>>>), "any", FALSE, 1, FALSE, FALSE)}

RenderedCalls ==
    {Call(<< >>, q.keywords, q.match_mode, q.use_regex, n, TRUE, f) :
        q \in {q_none, q_dev}, n \in 0..MaxRenderedPages, f \in BOOLEAN}

(***************************************************************************)
(* FilterSpec: filter_jobs called on bounded inputs, then called again     *)
(* with keywords added to the list.                                        *)
(***************************************************************************)
FilterIdle ==
    /\ fpc = "idle" /\ f_jobs = << >> /\ f_keywords = NoKeywords /\ f_mode = "any"
    /\ f_regex = FALSE /\ f_result = << >>
    /\ f_base = [set |-> FALSE, truthy |-> FALSE, kept |-> 0]

FilterInit ==
    /\ fpc = "call"
    /\ f_jobs \in SampleJobLists
    /\ f_keywords \in KeywordArgs
    /\ f_mode \in MatchModes
    /\ f_regex \in BOOLEAN
    /\ f_result = << >>
    /\ f_base = [set |-> FALSE, truthy |-> FALSE, kept |-> 0]

\* filtered = filter_jobs(jobs, keywords, match_mode, use_regex)
FilterCall ==
    /\ fpc = "call"
    /\ IF filter_raises(f_keywords, f_regex)
       THEN /\ fpc' = "raised"
            /\ UNCHANGED <<f_result, f_base>>
       ELSE /\ fpc' = "returned"
            /\ f_result' = filter_jobs(f_jobs, f_keywords, f_mode, f_regex)
            /\ f_base' = IF f_base.set THEN f_base
                         ELSE [set |-> TRUE, truthy |-> truthy(f_keywords),
                               kept |-> Len(filter_jobs(f_jobs, f_keywords, f_mode, f_regex))]
    /\ UNCHANGED <<f_jobs, f_keywords, f_mode, f_regex, dvars, svars>>

\* the list l with k inserted after its first n elements
InsertAt(l, n, k) == SubSeq(l, 1, n) \o <<k>> \o SubSeq(l, n + 1, Len(l))

\* the caller adds one keyword to the list and calls filter_jobs again
AddKeyword ==
    /\ fpc = "returned"
    /\ Len(f_keywords.list) < MaxKeywords + 1
    /\ \E k \in SampleKeywords, n \in 0..Len(f_keywords.list) :
          f_keywords' = KeywordList(InsertAt(f_keywords.list, n, k))
    /\ fpc' = "call"
    /\ UNCHANGED <<f_jobs, f_mode, f_regex, f_result, f_base, dvars, svars>>


(***************************************************************************)
(* DetailSpec: parse_job_detail_html called on bounded detail pages.       *)
(***************************************************************************)
DetailIdle == dpc = "idle" /\ d_doc = EmptyDoc /\ d_out = NoDetail

DetailInit == dpc = "call" /\ d_doc \in SampleDocs /\ d_out = NoDetail

\* d = parse_job_detail_html(detail_html)
Enrich ==
    /\ dpc = "call"
    /\ d_out' = parse_job_detail_html(d_doc)
    /\ dpc' = "returned"
    /\ UNCHANGED <<d_doc, fvars, svars>>

(***************************************************************************)
(* Spec: scrape_jobs (src/scraper.py:581-627) with the static loop and     *)
(* fetch_with_playwright (src/scraper.py:165-354).  The site and the       *)
(* browser are nondeterministic: a fetch or a browser operation succeeds   *)
(* or raises, and a listing page that is read is any page of PageNames.    *)
(***************************************************************************)
ScrapeIdle ==
    /\ pc = "idle" /\ arg = Call(<< >>, NoKeywords, "any", FALSE, 0, FALSE, FALSE)
    /\ installed = TRUE /\ pnum = 0 /\ all_jobs = << >> /\ log = << >>
    /\ r_jobs = << >> /\ r_html = "none" /\ page_jobs = << >> /\ di = 0
    /\ browser = "none" /\ detail_open = FALSE /\ shown = 0 /\ search = "none"
    /\ dom_rows = 0 /\ d_how = "none" /\ exc = "none" /\ outcome = "none" /\ result = << >>

ScrapeInit ==
    /\ pc = "start"
    /\ arg \in StaticCalls \cup RenderedCalls
    /\ installed \in (IF arg.use_playwright THEN BOOLEAN ELSE {TRUE})
    /\ pnum = 0 /\ all_jobs = << >> /\ log = << >>
    /\ r_jobs = << >> /\ r_html = "none" /\ page_jobs = << >> /\ di = 0
    /\ browser = "none" /\ detail_open = FALSE /\ shown = 0 /\ search = "none"
    /\ dom_rows = 0 /\ d_how = "none" /\ exc = "none" /\ outcome = "none" /\ result = << >>

\* an exception leaves the with block of the driver: Playwright is stopped,
\* which closes the browser and every page of it
raise_in_driver ==
    /\ exc' = "Error"
    /\ browser' = "closed"
    /\ detail_open' = FALSE
    /\ pc' = "except"

\* lines 595-598 and 607-608: all_jobs = [], the branch on use_playwright
\* a branch that is also taken when only follow_details is set
takes_rendered_branch_for_details(use_playwright, follow_details) ==
    use_playwright \/ follow_details

\* line 597: if use_playwright
takes_rendered_branch(use_playwright, follow_details) == use_playwright

\* lines 595-608: base and all_jobs are set and one of the two branches is taken
Begin ==
    /\ pc = "start"
    /\ pc' = IF takes_rendered_branch(arg.use_playwright, arg.follow_details)
             THEN "r_enter" ELSE "s_loop"
    /\ pnum' = 1
    /\ UNCHANGED <<arg, installed, all_jobs, log, r_jobs, r_html, page_jobs, di, browser,
                   detail_open, shown, search, exc, outcome, result, dom_rows, d_how, fvars, dvars>>

\* lines 609-618: fetch_page raises (network, timeout, raise_for_status)
StaticFetchFails ==
    /\ pc = "s_loop" /\ pnum <= arg.max_pages
    /\ log' = Append(log, [p |-> pnum, url |-> page_url(base_of(arg.url), pnum),
                           got |-> "error"])
    /\ pc' = after_fetch_error(pnum).pc
    /\ pnum' = after_fetch_error(pnum).p
    /\ UNCHANGED <<arg, installed, all_jobs, r_jobs, r_html, page_jobs, di, browser,
                   detail_open, shown, search, exc, outcome, result, dom_rows, d_how, fvars, dvars>>

\* lines 609-623: the page is fetched, parsed and its records added
StaticFetchParses ==
    /\ pc = "s_loop" /\ pnum <= arg.max_pages
    /\ \E name \in PageNames :
         LET parsed == parse_jobs_from_html(markup(name))
         IN /\ log' = Append(log, [p |-> pnum, url |-> page_url(base_of(arg.url), pnum),
                                   got |-> name])
            /\ all_jobs' = extend(all_jobs, parsed)
            /\ IF static_break(parsed)
               THEN pc' = "filter" /\ pnum' = pnum
               ELSE pc' = "s_loop" /\ pnum' = pnum + 1
    /\ UNCHANGED <<arg, installed, r_jobs, r_html, page_jobs, di, browser,
                   detail_open, shown, search, exc, outcome, result, dom_rows, d_how, fvars, dvars>>

\* line 608: range(1, max_pages + 1) is exhausted
StaticLoopEnds ==
    /\ pc = "s_loop" /\ pnum > arg.max_pages
    /\ pc' = "filter"
    /\ UNCHANGED <<arg, installed, pnum, all_jobs, log, r_jobs, r_html, page_jobs, di,
                   browser, detail_open, shown, search, exc, outcome, result, dom_rows, d_how, fvars, dvars>>

\* lines 172-173: sync_playwright is None
DriverNotInstalled ==
    /\ pc = "r_enter" /\ ~installed
    /\ exc' = "RuntimeError"
    /\ pc' = "except"
    /\ UNCHANGED <<arg, installed, pnum, all_jobs, log, r_jobs, r_html, page_jobs, di,
                   browser, detail_open, shown, search, outcome, result, dom_rows, d_how, fvars, dvars>>

\* lines 179-184: launch, new_page, goto and wait_for_load_state, any of which
\* may raise
DriverOpens ==
    /\ pc = "r_enter" /\ installed
    /\ \E failed \in {"none", "launch", "new_page", "goto", "wait_for_load_state"} :
         IF failed = "none"
         THEN /\ browser' = "open" /\ shown' = 1 /\ pc' = "r_search"
              /\ UNCHANGED <<exc, detail_open>>
         ELSE /\ raise_in_driver
              /\ UNCHANGED shown
    /\ UNCHANGED <<arg, installed, pnum, all_jobs, log, r_jobs, r_html, page_jobs, di,
                   search, outcome, result, dom_rows, d_how, fvars, dvars>>

\* lines 187-259: the keyword search, every failure of which is swallowed
DriverSearches ==
    /\ pc = "r_search"
    /\ IF Len(search_kw_of(arg.keywords)) > 0
       THEN search' \in {"submitted", "not_submitted"}
       ELSE search' = "none"
    /\ pc' = "r_page"
    /\ UNCHANGED <<arg, installed, pnum, all_jobs, log, r_jobs, r_html, page_jobs, di,
                   browser, detail_open, shown, exc, outcome, result, dom_rows, d_how, fvars, dvars>>

\* lines 261-277: the head of the page loop.  For pnum > 1: evaluate succeeds
\* with gotopage defined ("gotopage") or not ("no_function"); or evaluate raises
\* and the link is clicked ("clicked"), is not found ("no_link"), or the query
\* or the click raises ("failed": break)
DriverAdvances ==
    /\ pc = "r_page" /\ pnum <= arg.max_pages
    /\ IF pnum = 1
       THEN pc' = "r_content" /\ UNCHANGED shown
       ELSE \E how \in {"gotopage", "no_function", "clicked", "no_link", "failed"} :
              /\ shown' = CASE how = "gotopage" -> pnum
                            [] how = "clicked" -> shown + 1
                            [] OTHER -> shown
              /\ pc' = IF how = "failed" THEN "r_return" ELSE "r_content"
    /\ UNCHANGED <<arg, installed, pnum, all_jobs, log, r_jobs, r_html, page_jobs, di,
                   browser, detail_open, search, exc, outcome, result, dom_rows, d_how, fvars, dvars>>

\* line 261: range(1, max_pages + 1) is exhausted
DriverLoopEnds ==
    /\ pc = "r_page" /\ pnum > arg.max_pages
    /\ pc' = "r_return"
    /\ UNCHANGED <<arg, installed, pnum, all_jobs, log, r_jobs, r_html, page_jobs, di,
                   browser, detail_open, shown, search, exc, outcome, result, dom_rows, d_how, fvars, dvars>>

\* line 279: html = page.content(), which may raise
DriverReadsPage ==
    /\ pc = "r_content"
    /\ \/ /\ r_html' \in PageNames
          /\ pc' = "r_extract"
          /\ UNCHANGED <<exc, browser, detail_open>>
       \/ /\ raise_in_driver
          /\ UNCHANGED r_html
    /\ UNCHANGED <<arg, installed, pnum, all_jobs, log, r_jobs, page_jobs, di,
                   shown, search, outcome, result, dom_rows, d_how, fvars, dvars>>

\* lines 281-320: the rows are read from the rendered table, or, when the
\* locator raises, by parse_jobs_from_html
DriverExtracts ==
    /\ pc = "r_extract"
    /\ \/ \E failed \in SUBSET (1..Len(located_rows(markup(r_html)))) :
            page_jobs' = dom_jobs(located_rows(markup(r_html)), 1, failed,
                                  base_of(arg.url))
       \/ page_jobs' = parse_jobs_from_html(markup(r_html))
    /\ IF arg.follow_details /\ Len(page_jobs') > 0
       THEN pc' = "r_details" /\ di' = 1
       ELSE pc' = "r_accumulate" /\ di' = 0
    /\ UNCHANGED <<arg, installed, pnum, all_jobs, log, r_jobs, r_html, browser,
                   detail_open, shown, search, exc, outcome, result, dom_rows, d_how, fvars, dvars>>

\* lines 322-340: one row of the details loop.  The row has no link
\* (continue); or the detail page is read and closed ("ok"); or new_page
\* raises ("new_page"); or goto, wait_for_load_state or content raises
\* ("load"); or close raises after the row was updated ("close")
DriverFollowsDetail ==
    /\ pc = "r_details" /\ di <= Len(page_jobs)
    /\ LET href == detail_link(markup(r_html), page_jobs[di])
           d == detail_served(href).d
       IN IF Len(href) = 0
          THEN /\ d_how' = "no_link"
               /\ pc' = detail_row_next("no_link", di, Len(page_jobs))
               /\ UNCHANGED <<page_jobs, detail_open>>
          ELSE \E how \in {"ok", "new_page", "load", "close"} :
                 /\ d_how' = how
                 /\ pc' = detail_row_next(how, di, Len(page_jobs))
                 /\ page_jobs' = IF how \in {"ok", "close"}
                                 THEN [page_jobs EXCEPT ![di] = update(@, d)]
                                 ELSE page_jobs
                 /\ detail_open' = (detail_open \/ how \in {"load", "close"})
    /\ di' = di + 1
    /\ UNCHANGED <<arg, installed, pnum, all_jobs, log, r_jobs, r_html, browser,
                   shown, search, exc, outcome, result, dom_rows, fvars, dvars>>

\* lines 342-352: the helper field is removed, the rows are added to jobs and
\* the end-of-results test is made
DriverAccumulates ==
    /\ pc = "r_accumulate"
    /\ r_jobs' = extend(r_jobs, [i \in 1..Len(page_jobs) |-> pop_detail_href(page_jobs[i])])
    /\ page_jobs' = << >>
    /\ d_how' = "none"
    /\ dom_rows' = dom_rows
                   + Cardinality({i \in 1..Len(page_jobs) : "_detail_href" \in DOMAIN page_jobs[i]})
    /\ IF end_of_results(markup(r_html), pnum)
       THEN pc' = "r_return" /\ pnum' = pnum
       ELSE pc' = "r_page" /\ pnum' = pnum + 1
    /\ UNCHANGED <<arg, installed, all_jobs, log, r_html, di, browser,
                   detail_open, shown, search, exc, outcome, result, fvars, dvars>>

\* line 354 and line 603: the with block is left, which closes the browser, and
\* the driver returns jobs
DriverReturns ==
    /\ pc = "r_return"
    /\ browser' = "closed"
    /\ detail_open' = FALSE
    /\ all_jobs' = r_jobs
    /\ pc' = "filter"
    /\ UNCHANGED <<arg, installed, pnum, log, r_jobs, r_html, page_jobs, di,
                   shown, search, exc, outcome, result, dom_rows, d_how, fvars, dvars>>

\* lines 604-606: except Exception: return []
CatchDriverError ==
    /\ pc = "except"
    /\ result' = except_return(r_jobs)
    /\ outcome' = "returned"
    /\ pc' = "done"
    /\ UNCHANGED <<arg, installed, pnum, all_jobs, log, r_jobs, r_html, page_jobs, di,
                   browser, detail_open, shown, search, exc, dom_rows, d_how, fvars, dvars>>

\* lines 625-627: filtered = filter_jobs(...); return filtered
Filter ==
    /\ pc = "filter"
    /\ IF filter_raises(arg.keywords, arg.use_regex)
       THEN /\ exc' = "re.error" /\ outcome' = "raised"
            /\ UNCHANGED result
       ELSE /\ result' = filter_jobs(all_jobs, arg.keywords, arg.match_mode, arg.use_regex)
            /\ outcome' = "returned"
            /\ UNCHANGED exc
    /\ pc' = "done"
    /\ UNCHANGED <<arg, installed, pnum, all_jobs, log, r_jobs, r_html, page_jobs, di,
                   browser, detail_open, shown, search, dom_rows, d_how, fvars, dvars>>

(***************************************************************************)
(* The specifications.                                                     *)
(***************************************************************************)
FilterSpecInit == FilterInit /\ DetailIdle /\ ScrapeIdle
FilterNext == FilterCall \/ AddKeyword
FilterSpec == FilterSpecInit /\ [][FilterNext]_vars

DetailSpecInit == DetailInit /\ FilterIdle /\ ScrapeIdle
DetailNext == Enrich
DetailSpec == DetailSpecInit /\ [][DetailNext]_vars

Init == ScrapeInit /\ FilterIdle /\ DetailIdle
Next ==
    \/ Begin
    \/ StaticFetchFails \/ StaticFetchParses \/ StaticLoopEnds
    \/ DriverNotInstalled \/ DriverOpens \/ DriverSearches
    \/ DriverAdvances \/ DriverLoopEnds \/ DriverReadsPage \/ DriverExtracts
    \/ DriverFollowsDetail \/ DriverAccumulates \/ DriverReturns
    \/ CatchDriverError \/ Filter
Spec == Init /\ [][Next]_vars

(***************************************************************************)
(* Claims about scrape_jobs.                                               *)
(***************************************************************************)
\* the records the Static Parser reads from the page of one fetch
FetchedRecords(e) ==
    IF e.got = "error" THEN << >> ELSE parse_jobs_from_html(markup(e.got))

\* the record of a table row: its cells, trimmed, taken by position
PositionalRecord(tds) ==
    LET cell(k) == IF k <= Len(tds) THEN strip(tds[k]) ELSE << >>
    IN [f \in PersistedFields |->
          CASE f = "Position ID" -> cell(1)
            [] f = "Position Title" -> cell(2)
            [] f = "Category" -> cell(3)
            [] f = "City" -> cell(4)
            [] f = "Country" -> cell(5)
            [] OTHER -> << >>]

\* the records of a fetched page: one per body row with cells when the page has
\* a results table, the Static Parser's reading of the text otherwise
PageRecords(page) ==
    IF page.table # "none"
    THEN LET withCells == SelectSeq(page.rows, LAMBDA r : Len(r.tds) > 0)
         IN [i \in 1..Len(withCells) |-> PositionalRecord(withCells[i].tds)]
    ELSE parse_jobs_from_html(page)

\* the concatenation, in page order, of the records of the first n fetches
RECURSIVE ConcatRecords(_, _)
ConcatRecords(fetches, n) ==
    IF n <= 0 THEN << >>
    ELSE ConcatRecords(fetches, n - 1)
         \o (IF fetches[n].got = "error" THEN << >> ELSE PageRecords(markup(fetches[n].got)))

\* C1: static acquisition fetches the pages 1, 2, ... in order, never more than
\* max_pages of them, and fetches no page after a page that parsed to zero
\* records.
C1_StaticStopsAtEmptyPage ==
    ~arg.use_playwright =>
        /\ \A i \in 1..Len(log) :
              log[i].p = i /\ log[i].url = page_url(base_of(arg.url), i)
        /\ Len(log) <= arg.max_pages
        /\ \A i \in 1..Len(log) :
              (log[i].got # "error" /\ Len(FetchedRecords(log[i])) = 0) => i = Len(log)

\* max_pages is 3, page 1 has records, page 2 has none, and the run is over
C1_Witness ==
    /\ ~arg.use_playwright /\ arg.max_pages = 3 /\ pc = "done"
    /\ Len(log) = 2
    /\ log[1].got # "error" /\ Len(FetchedRecords(log[1])) > 0
    /\ log[2].got # "error" /\ Len(FetchedRecords(log[2])) = 0

\* C2: when the fetch of page k fails in static acquisition, no later page is
\* fetched, the records of pages 1..k-1 are the list given to the filter, and
\* scrape_jobs raises only when the filter itself raises.
C2_FetchFailureKeepsRecords ==
    \A k \in 1..Len(log) :
        log[k].got = "error" =>
            /\ k = Len(log)
            /\ pc \in {"filter", "done"}
            /\ all_jobs = ConcatRecords(log, k - 1)
            /\ pc = "done" =>
                 IF filter_raises(arg.keywords, arg.use_regex)
                 THEN outcome = "raised" /\ exc = "re.error"
                 ELSE /\ outcome = "returned"
                      /\ result = filter_jobs(ConcatRecords(log, k - 1), arg.keywords,
                                              arg.match_mode, arg.use_regex)

\* the fetch of page 3 failed, and records of pages 1 and 2 are returned
C2_Witness ==
    /\ pc = "done" /\ Len(log) = 3 /\ log[3].got = "error"
    /\ truthy(arg.keywords) /\ outcome = "returned"
    /\ Len(result) > 0 /\ Len(result) < Len(all_jobs)

\* C3: when fetch_with_playwright raises, scrape_jobs returns the empty list:
\* nothing is raised to the caller and none of the records the driver had
\* gathered is returned.
C3_DriverErrorGivesEmptyResult ==
    (arg.use_playwright /\ exc \in {"RuntimeError", "Error"}) =>
        /\ pc \in {"except", "done"}
        /\ outcome # "raised"
        /\ pc = "done" => (outcome = "returned" /\ result = << >>)

\* the driver raised after it had gathered records, and scrape_jobs has returned
C3_Witness ==
    /\ arg.use_playwright /\ exc = "Error" /\ pc = "done"
    /\ Len(r_jobs) > 0 /\ result = << >>

\* C4: when Playwright is not installed, a rendered run of scrape_jobs raises to
\* its caller.
C4_NotInstalledRaises ==
    (arg.use_playwright /\ ~installed /\ pc = "done") => outcome = "raised"

\* C5: in static mode the result is the filter applied to the concatenation, in
\* page order, of the records of every fetched page, a table row giving one
\* record with its cells taken by position; records with the same Position ID
\* are all kept.
C5_StaticResultIsFilteredConcat ==
    (~arg.use_playwright /\ pc = "done" /\ outcome = "returned") =>
        result = filter_jobs(ConcatRecords(log, Len(log)), arg.keywords,
                             arg.match_mode, arg.use_regex)

\* a static run with keywords that returns two records with the same Position ID
\* and drops other records
C5_Witness ==
    /\ ~arg.use_playwright /\ pc = "done" /\ outcome = "returned"
    /\ truthy(arg.keywords) /\ Len(result) < Len(all_jobs)
    /\ \E i, j \in 1..Len(result) :
          i < j /\ result[i]["Position ID"] = result[j]["Position ID"]

\* C8: every record scrape_jobs returns, and every record the driver has added
\* to its accumulated list, has exactly the eight persisted fields, so that
\* _detail_href is not among them.
C8_PersistedFieldsOnly ==
    /\ \A i \in 1..Len(result) : DOMAIN result[i] = PersistedFields
    /\ \A i \in 1..Len(all_jobs) : DOMAIN all_jobs[i] = PersistedFields
    /\ \A i \in 1..Len(r_jobs) : DOMAIN r_jobs[i] = PersistedFields

\* a rendered run with detail-following returns records that were all read from
\* the rendered table, one of them enriched
C8_Witness ==
    /\ arg.use_playwright /\ arg.follow_details /\ pc = "done"
    /\ Len(result) > 0 /\ dom_rows = Len(result)
    /\ \E i \in 1..Len(result) : Len(result[i]["Deadline"]) > 0

\* C11: once fetch_with_playwright has returned or raised, the browser it
\* opened is not open and no detail page is; and while the driver runs, every
\* detail page opened for a row already dealt with has been closed.
C11_ResourcesReleased ==
    /\ (arg.use_playwright /\ pc \in {"except", "filter", "done"}) =>
          (browser # "open" /\ ~detail_open)
    /\ pc \in {"r_details", "r_accumulate", "r_page", "r_content", "r_extract", "r_return"}
          => ~detail_open

\* C12: no failure of a browser operation leaves fetch_with_playwright.
C12_NoDriverErrorEscapes ==
    arg.use_playwright => exc # "Error"

\* C13: while the driver reads, extracts or accumulates the rows of page index
\* pnum > 1, the browser has advanced to that index.
C13_ExtractsOnlyAfterAdvance ==
    (pc \in {"r_content", "r_extract", "r_details", "r_accumulate"} /\ pnum > 1)
        => shown = pnum

ListingFields == {"Position ID", "Position Title", "Category", "City", "Country"}
DetailFailures == {"new_page", "load", "close"}

\* C14: a step of the details loop in which opening, loading or closing the
\* detail page of a row fails raises nothing, leaves the number of rows, the
\* listing fields of the row and every other row as they were, and goes on to the
\* next row of the page when there is one; and the step that ends a page adds
\* every row of the page to jobs and goes on to the next page index, unless the
\* end-of-results test stops the loop.
C14_DetailFailureIsolated ==
    [][ /\ (pc = "r_details" /\ d_how' \in DetailFailures) =>
              /\ exc' = exc /\ r_jobs' = r_jobs /\ pnum' = pnum
              /\ Len(page_jobs') = Len(page_jobs)
              /\ \A i \in 1..Len(page_jobs) :
                    /\ \A f \in ListingFields : page_jobs'[i][f] = page_jobs[i][f]
                    /\ i # di => page_jobs'[i] = page_jobs[i]
              /\ di' = di + 1
              /\ pc' = IF di < Len(page_jobs) THEN "r_details" ELSE "r_accumulate"
        /\ pc = "r_accumulate" =>
              /\ Len(r_jobs') = Len(r_jobs) + Len(page_jobs)
              /\ \A i \in 1..Len(page_jobs) : \A f \in ListingFields :
                    r_jobs'[Len(r_jobs) + i][f] = page_jobs[i][f]
              /\ \/ pc' = "r_page" /\ pnum' = pnum + 1
                 \/ /\ pc' = "r_return"
                    /\ markup(r_html).page_word /\ ~markup(r_html).next_word /\ pnum > 1
      ]_vars

\* the details loop of a page of two rows is over: the first row had a link and
\* was not enriched, the second row was
C14_Witness ==
    /\ pc = "r_accumulate" /\ Len(page_jobs) = 2
    /\ "_detail_href" \in DOMAIN page_jobs[1]
    /\ Len(page_jobs[1]["_detail_href"]) > 0
    /\ Len(page_jobs[1]["Position ID"]) > 0 /\ Len(page_jobs[1]["Deadline"]) = 0
    /\ Len(page_jobs[2]["Deadline"]) > 0

\* what the text fallback makes of the text lines of a page
TextRecords(page) == fallback_jobs(stripped_nonempty(page.lines), 1)

\* the records of a page by strategy: the body rows with cells of the results
\* table when the page has one, the text fallback only when it has none
StrategyRecords(page) ==
    IF page.table # "none"
    THEN LET withCells == SelectSeq(page.rows, LAMBDA r : Len(r.tds) > 0)
         IN [i \in 1..Len(withCells) |-> PositionalRecord(withCells[i].tds)]
    ELSE TextRecords(page)

RECURSIVE StrategyConcat(_, _)
StrategyConcat(fetches, n) ==
    IF n <= 0 THEN << >>
    ELSE StrategyConcat(fetches, n - 1)
         \o (IF fetches[n].got = "error" THEN << >> ELSE StrategyRecords(markup(fetches[n].got)))

\* C15: for every page the static loop fetched, parse_jobs_from_html returns
\* exactly the records of the body rows of the results table when the page has
\* one (none at all when the table yields none, whatever the text fallback would
\* make of the page text), and the records of the text fallback only when the
\* page has no such table; the records gathered are their concatenation.
C15_TableExcludesFallback ==
    ~arg.use_playwright =>
        /\ \A i \in 1..Len(log) :
              log[i].got # "error" =>
                  LET page == markup(log[i].got)
                  IN /\ FetchedRecords(log[i]) = StrategyRecords(page)
                     /\ (page.table # "none" /\ \A k \in 1..Len(page.rows) :
                                                   Len(page.rows[k].tds) = 0)
                            => Len(FetchedRecords(log[i])) = 0
        /\ all_jobs = StrategyConcat(log, Len(log))

\* a static run is over whose second page had a results table without a row of
\* cells and text lines the fallback would turn into records: only the record
\* of page 1 was gathered
C15_Witness ==
    /\ ~arg.use_playwright /\ pc = "done" /\ Len(log) = 2
    /\ log[1].got = "one" /\ log[2].got = "head"
    /\ markup("head").table # "none" /\ Len(TextRecords(markup("head"))) > 0
    /\ Len(all_jobs) = 1

\* C16: the step that ends page pnum of the rendered loop first adds the rows of
\* that page, without their helper key, to jobs, and then stops the loop exactly
\* when the markup of the page has the token Page, has not the token NEXT and
\* pnum is greater than 1; otherwise, and always on page 1, the loop goes on with
\* the next page index.
C16_EndOfResultsAfterFirstPage ==
    [][ pc = "r_accumulate" =>
          /\ Len(r_jobs') = Len(r_jobs) + Len(page_jobs)
          /\ \A i \in 1..Len(r_jobs) : r_jobs'[i] = r_jobs[i]
          /\ \A i \in 1..Len(page_jobs) : \A f \in PersistedFields :
                r_jobs'[Len(r_jobs) + i][f] = page_jobs[i][f]
          /\ (pc' = "r_return") <=>
                (markup(r_html).page_word /\ ~markup(r_html).next_word /\ pnum > 1)
          /\ pc' # "r_return" => (pc' = "r_page" /\ pnum' = pnum + 1)
          /\ pnum = 1 => pc' = "r_page"
      ]_vars

\* the loop was stopped after page 2, whose markup has Page and not NEXT, with
\* max_pages not yet the reason, and the two rows of page 2 are in jobs after
\* the row of page 1
C16_Witness ==
    /\ arg.use_playwright /\ pc = "r_return" /\ pnum = 2 /\ r_html = "two"
    /\ markup(r_html).page_word /\ ~markup(r_html).next_word
    /\ page_jobs = << >> /\ Len(r_jobs) = 3
    /\ r_jobs[1]["Position ID"] = s_J1 /\ r_jobs[2]["Position ID"] = s_J2

EnrichmentFields == {"Duration", "Key Programming & Technical Skills", "Deadline"}

\* every record of the sequence has the three enrichment fields empty
Listed(recs) ==
    \A i \in 1..Len(recs) : \A f \in EnrichmentFields : recs[i][f] = << >>

\* C17: in a static run no browser and no detail page is ever opened, no step of
\* the details loop is taken, and every record gathered or returned has
\* Duration, Key Programming & Technical Skills and Deadline empty, whatever
\* follow_details is; and a step of the details loop of a rendered run leaves the
\* keys of every row and every field other than those three as they were.
C17_EnrichmentOnlyRendered ==
    /\ [](~arg.use_playwright =>
            /\ browser = "none" /\ ~detail_open /\ d_how = "none" /\ shown = 0
            /\ pc \in {"start", "s_loop", "filter", "done"}
            /\ page_jobs = << >> /\ r_jobs = << >>
            /\ Listed(all_jobs) /\ Listed(result))
    /\ [][ pc = "r_details" =>
             /\ Len(page_jobs') = Len(page_jobs)
             /\ \A i \in 1..Len(page_jobs) :
                   /\ DOMAIN page_jobs'[i] = DOMAIN page_jobs[i]
                   /\ \A f \in DOMAIN page_jobs[i] \ EnrichmentFields :
                         page_jobs'[i][f] = page_jobs[i][f]
         ]_vars

\* a static run with follow_details set is over and returned records
C17_Witness ==
    /\ ~arg.use_playwright /\ arg.follow_details /\ pc = "done"
    /\ Len(result) > 0 /\ Len(log) > 0 /\ browser = "none"

(***************************************************************************)
(* Claims about filter_jobs.                                               *)
(***************************************************************************)
\* keyword k occurs, case-insensitively, in the string hay
OccursIn(k, hay) ==
    \E off \in 0..(Len(hay) - Len(k)) :
        \A n \in 1..Len(k) : LowerChar(k[n]) = LowerChar(hay[off + n])

\* the field values of a record, joined by single spaces
SpaceJoined(j) ==
    j["Position ID"] \o <<" ">> \o j["Position Title"] \o <<" ">> \o j["Category"]
        \o <<" ">> \o j["City"] \o <<" ">> \o j["Country"] \o <<" ">> \o j["Duration"]
        \o <<" ">> \o j["Key Programming & Technical Skills"] \o <<" ">> \o j["Deadline"]

FilterKeeps(j, kws, mode) ==
    IF mode = "any" THEN \E n \in 1..Len(kws) : OccursIn(kws[n], SpaceJoined(j))
    ELSE \A n \in 1..Len(kws) : OccursIn(kws[n], SpaceJoined(j))

FilterReference(jobs, keywords, mode) ==
    IF keywords.none \/ keywords.list = << >> THEN jobs
    ELSE SelectSeq(jobs, LAMBDA j : FilterKeeps(j, keywords.list, mode))

\* C6: with substring matching and mode any or all, filter_jobs returns its input
\* unchanged when keywords is empty or absent, and otherwise the subsequence, in
\* input order, of the records in whose space-joined field values at least one
\* (any) or every (all) keyword occurs case-insensitively.
C6_FilterEqualsReference ==
    (fpc = "returned" /\ ~f_regex /\ f_mode \in {"any", "all"})
        => f_result = FilterReference(f_jobs, f_keywords, f_mode)

\* mode all, two keywords, some records kept and some dropped
C6_Witness ==
    /\ fpc = "returned" /\ ~f_regex /\ f_mode = "all"
    /\ Len(f_keywords.list) = 2
    /\ Len(f_result) > 0 /\ Len(f_result) < Len(f_jobs)

\* C7 as stated: with mode any and substring matching, for every keyword sequence
\* K and every K' obtained by adding keywords to K, at least as many records are
\* kept for K' as for K.
C7_MonotonicForEveryK ==
    (fpc = "returned" /\ f_base.set /\ f_mode = "any" /\ ~f_regex)
        => Len(f_result) >= f_base.kept

\* C7 amended: the same, for every non-empty keyword sequence K (an empty or absent
\* K bypasses the filter and keeps every record).
C7_MonotonicForNonEmptyK ==
    (fpc = "returned" /\ f_base.set /\ f_base.truthy /\ f_mode = "any" /\ ~f_regex)
        => Len(f_result) >= f_base.kept

\* keywords were added to a non-empty K and strictly more records are kept
C7_Witness ==
    /\ fpc = "returned" /\ f_base.set /\ f_base.truthy /\ f_mode = "any" /\ ~f_regex
    /\ Len(f_result) > f_base.kept


(***************************************************************************)
(* Claims about parse_job_detail_html.                                     *)
(***************************************************************************)
\* a string with each digit replaced by "d"
Shape(x) == [i \in 1..Len(x) |-> IF IsDigit(x[i]) THEN "d" ELSE x[i]]
ShapeYmd == <<"d","d","d","d","-","d","d","-","d","d">>
ShapeYm == <<"d","d","d","d","-","d","d">>
ShapePrefix(x, n) == SubSeq(Shape(x), 1, Min(n, Len(x)))

\* C9: the Deadline the Detail Enricher returns is the empty string or a string of
\* the form YYYY-MM-DD; a month-name date found in the visible text that cannot be
\* parsed into a calendar date does not become the Deadline.
C9_DeadlineEmptyOrIso ==
    dpc = "returned" => (d_out["Deadline"] = << >> \/ Shape(d_out["Deadline"]) = ShapeYmd)

\* a full ISO 8601 date-time: a calendar date, T, a time of day, and optionally Z
\* or an offset
ClockShapes == {<<"d","d",":","d","d">>, <<"d","d",":","d","d",":","d","d">>}
ZoneShapes == {<< >>, <<"Z">>, <<"+","d","d",":","d","d">>, <<"-","d","d",":","d","d">>}
IsFullIsoDateTime(v) ==
    /\ \E c \in ClockShapes, z \in ZoneShapes : Shape(v) = ShapeYmd \o <<"T">> \o c \o z
    /\ num_at(v, 6, 2) \in 1..12
    /\ num_at(v, 9, 2) \in 1..days_in_month(num_at(v, 1, 4), num_at(v, 6, 2))
    /\ num_at(v, 12, 2) < 24 /\ num_at(v, 15, 2) < 60

\* the first validThrough value of a block, as text with surrounding white space
\* removed; << >> when the block has no text, does not decode, or holds none
BlockValue(block) ==
    IF block.txt \in {"json", "wrapped"} /\ json_truthy(block.json)
          /\ json_truthy(find_valid(block.json))
    THEN strip(py_str(find_valid(block.json)))
    ELSE << >>

\* what the claim as stated says a value v gives
StatedDeadlineOf(v) ==
    IF IsFullIsoDateTime(v) THEN SubSeq(v, 1, 10)
    ELSE IF Shape(v) = ShapeYmd THEN v
    ELSE IF Shape(v) = ShapeYm THEN v \o <<"-","0","1">>
    ELSE << >>

\* what the amended claim says a value v gives
AmendedDeadlineOf(v) ==
    IF ShapePrefix(v, 10) = ShapeYmd THEN SubSeq(v, 1, 10)
    ELSE IF ShapePrefix(v, 7) = ShapeYm THEN SubSeq(v, 1, 7) \o <<"-","0","1">>
    ELSE << >>

\* the Deadline of a page when the first block whose value gives a date decides,
\* and the visible-text heuristics decide when no block does
ExpectedDeadline(doc, DeadlineOf(_)) ==
    LET setting == {i \in 1..Len(doc.ldjson) : DeadlineOf(BlockValue(doc.ldjson[i])) # << >>}
    IN IF setting = {} THEN strip(visible_deadline(doc.texts))
       ELSE DeadlineOf(BlockValue(doc.ldjson[CHOOSE i \in setting : \A k \in setting : i <= k]))

\* C10 as stated: the first validThrough value v of a block gives the calendar
\* date of v when v is a full ISO 8601 date-time, v itself when v is YYYY-MM-DD,
\* YYYY-MM-01 when v is YYYY-MM; a value of none of these forms, or a block that
\* does not decode, sets nothing, and the remaining blocks and then the
\* visible-text heuristics decide.
C10_DeadlineAsStated ==
    dpc = "returned" => d_out["Deadline"] = ExpectedDeadline(d_doc, StatedDeadlineOf)

\* C10 amended: the value gives its first ten characters when it begins with
\* YYYY-MM-DD (the calendar date of an ISO date or date-time), and otherwise its
\* first seven characters and -01 when it begins with YYYY-MM; a value that does
\* not begin with YYYY-MM, or a block that does not decode, sets nothing, and the
\* remaining blocks and then the visible-text heuristics decide.
C10_DeadlineByPrefix ==
    dpc = "returned" => d_out["Deadline"] = ExpectedDeadline(d_doc, AmendedDeadlineOf)

\* a block that does not decode, then a block whose value 2026-05-3 begins with
\* YYYY-MM, which sets the Deadline
C10_Witness ==
    /\ dpc = "returned"
    /\ Len(d_doc.ldjson) = 2
    /\ d_doc.ldjson[1].txt = "garbage"
    /\ BlockValue(d_doc.ldjson[2]) = s_v_short_day
    /\ d_out["Deadline"] = <<"2","0","2","6","-","0","5","-","0","1">>

====
